---- MODULE Spec2Model ----
(***************************************************************************)
(* Experience replay of tf_reinforcement_testcases: a replay table        *)
(* (storage.py), the episode collector and training loop                   *)
(* (abstract_agent.py) and the prioritized training step                   *)
(* (deep_q_learning.py).                                                   *)
(*                                                                         *)
(* Priorities and TD errors are fixed-point numbers in thousandths         *)
(* (1000 stands for 1.0).                                                  *)
(***************************************************************************)
EXTENDS Integers, Sequences, FiniteSets, TLC

\* ------------------------------------------------------------------ bounds
MaxNSteps == 4        \* n_steps ranges over 1..MaxNSteps
MaxMinSize == 2       \* min_size ranges over 1..MaxMinSize
MaxMaxSize == 3       \* max_size ranges over 1..MaxMaxSize
MaxEpisodeLen == 2    \* the environment ends an episode after at most this many steps
MaxIterations == 2    \* iterations_number of train()

\* ------------------------------------------------------- program constants
DefaultPriority == 1000     \* priority=1. of create_item
ErrorOffset == 10           \* tf.constant([0.01])
ErrorClip == 1000           \* tf.constant([1.])
BetaStart == 4000           \* tf.Variable(0.4), in ten-thousandths
BetaIncrement == 1          \* tf.constant(0.0001), in ten-thousandths
BetaCap == 10000            \* tf.constant(1.0), in ten-thousandths
GammaNum == 95              \* discount_rate 0.95 as GammaNum / GammaDen
GammaDen == 100

Actions == {0}              \* what the policy picks; the table never reads it
Rewards == {1}              \* rewards the environment hands out
AbsErrors == {0, 2000}      \* |target_Q - Q| of one sampled item
Kinds == {"uniform", "priority"}

VARIABLES
    kind,           \* which buffer class built the table
    n_steps,        \* Agent._n_steps
    min_size,       \* buffer._min_size, also the rate limiter's argument
    max_size,       \* the table's max_size
    table,          \* the server's table: items in insertion order
    next_key,       \* key handed to the next item
    writer,         \* steps buffered in the episode's writer
    pc,             \* where the agent's thread stands
    step,           \* loop variable of the episode loop
    episode,        \* number of the episode being collected
    iteration,      \* loop variable of train()
    items_created,  \* Agent._items_created
    items_sampled,  \* Agent._items_sampled
    ep_items,       \* items created in the current episode
    in_flight,      \* samples the dataset has drawn and not yet handed out
    batch,          \* the batch sample_batch() returned last
    n_updates,      \* update_priorities calls made so far
    last_stale,     \* keys of the last update_priorities call the table did not hold
    beta,           \* self._beta, in ten-thousandths (0 stands for None)
    beta_used,      \* the beta the latest _training_step computed with
    td_args         \* what _prepare_td_arguments returned last

vars == <<kind, n_steps, min_size, max_size, table, next_key, writer, pc, step,
          episode, iteration, items_created, items_sampled, ep_items,
          in_flight, batch, n_updates, last_stale, beta, beta_used, td_args>>

Min(a, b) == IF a <= b THEN a ELSE b

\* The last n elements of s (all of s when it is shorter).
LastN(s, n) == IF Len(s) <= n THEN s ELSE SubSeq(s, Len(s) - n + 1, Len(s))

Keys(tbl) == {tbl[i].key : i \in 1..Len(tbl)}

\* ------------------------------------------------------------- the table
\* max_size=int(max_size) of reverb.Table
TableMaxSizePlusOne == max_size + 1
table_max_size == max_size

\* rate_limiter=reverb.rate_limiters.MinSize(min_size)
RateLimiterMinSizeLow == min_size - 1
rate_limiter_min_size == min_size

\* remover=reverb.selectors.Fifo(): the slot of the oldest item; Lifo would
\* name the newest one.
Lifo(tbl) == Len(tbl)
Fifo(tbl) == 1

RemoveAt(tbl, i) == SubSeq(tbl, 1, i - 1) \o SubSeq(tbl, i + 1, Len(tbl))

RECURSIVE Evict(_)
Evict(tbl) ==
    IF Len(tbl) > table_max_size THEN Evict(RemoveAt(tbl, Fifo(tbl))) ELSE tbl

\* The table's insert: add the item, then evict while it holds too many.
TableInsert(tbl, item) == Evict(Append(tbl, item))

\* MinSize: sampling is blocked until the table holds that many items.
CanSample == Len(table) >= rate_limiter_min_size

\* MinSize never holds an insert back; a Queue limiter would hold it back
\* while the table is full.
CanInsertQueue == Len(table) < table_max_size
CanInsert == TRUE

\* ------------------------------------------------------------- the agent
\* self._sample_batch_size = buffer.min_size
sample_batch_size == min_size

\* max_in_flight_samples_per_worker=2 * batch_size
max_in_flight == 2 * sample_batch_size

StartItemizingEarly == n_steps - 3
StartItemizingLate == n_steps - 1
start_itemizing == n_steps - 2

NoSentinel == [ep |-> episode + 1, idx |-> 0, action |-> 0, reward |-> 0, done |-> FALSE]
Sentinel == [ep |-> episode + 1, idx |-> 0, action |-> -1, reward |-> 0, done |-> FALSE]

\* writer.append with max_sequence_length=n_steps keeps the last n_steps steps
WriterAppend(w, s) == LastN(Append(w, s), n_steps)

Init ==
    /\ kind \in Kinds
    /\ n_steps \in 1..MaxNSteps
    /\ min_size \in 1..MaxMinSize
    /\ max_size \in 1..MaxMaxSize
    /\ table = <<>>
    /\ next_key = 1
    /\ writer = <<>>
    /\ pc = "collect"
    /\ step = 0
    /\ episode = 0
    /\ iteration = 0
    /\ items_created = 0
    /\ items_sampled = 0
    /\ ep_items = 0
    /\ in_flight = <<>>
    /\ batch = <<>>
    /\ n_updates = 0
    /\ last_stale = {}
    /\ beta = IF kind = "priority" THEN BetaStart ELSE 0
    /\ beta_used = 0
    /\ td_args = <<>>

\* _collect_trajectories_from_episode up to the loop: a new writer, the
\* environment's reset and the sentinel step.
ResetEpisode ==
    /\ pc = "collect"
    /\ iteration < MaxIterations
    /\ writer' = WriterAppend(<<>>, Sentinel)
    /\ episode' = episode + 1
    /\ step' = 0
    /\ ep_items' = 0
    /\ pc' = "step"
    /\ UNCHANGED <<kind, n_steps, min_size, max_size, table, next_key, iteration,
                   items_created, items_sampled, in_flight, batch, n_updates,
                   last_stale,
                   beta, beta_used, td_args>>

\* A pass of the episode loop that does not leave the loop on done before
\* the episode's bound.
EnvStepNoBreak(a, r, d) ==
    /\ pc = "step"
    /\ step >= start_itemizing => CanInsert
    /\ LET s == [ep |-> episode, idx |-> step + 1, action |-> a, reward |-> r, done |-> d]
           w == WriterAppend(writer, s)
           itemize == step >= start_itemizing
           item == [key |-> next_key, priority |-> DefaultPriority, steps |-> LastN(w, n_steps)]
       IN /\ writer' = w
          /\ IF itemize
             THEN /\ table' = TableInsert(table, item)
                  /\ next_key' = next_key + 1
                  /\ items_created' = items_created + 1
                  /\ ep_items' = ep_items + 1
             ELSE UNCHANGED <<table, next_key, items_created, ep_items>>
          /\ IF d /\ step + 1 >= MaxEpisodeLen
             THEN /\ pc' = "sample"
                  /\ step' = step
             ELSE /\ pc' = "step"
                  /\ step' = step + 1
    /\ UNCHANGED <<kind, n_steps, min_size, max_size, episode, iteration,
                   items_sampled, in_flight, batch, n_updates, last_stale,
                   beta, beta_used, td_args>>

\* One pass of the episode loop: the policy's action, the environment's step,
\* the append, the item once enough steps are buffered, the break on done.
EnvStep(a, r, d) ==
    /\ pc = "step"
    /\ step >= start_itemizing => CanInsert
    /\ LET s == [ep |-> episode, idx |-> step + 1, action |-> a, reward |-> r, done |-> d]
           w == WriterAppend(writer, s)
           itemize == step >= start_itemizing
           item == [key |-> next_key, priority |-> DefaultPriority, steps |-> LastN(w, n_steps)]
       IN /\ writer' = w
          /\ IF itemize
             THEN /\ table' = TableInsert(table, item)
                  /\ next_key' = next_key + 1
                  /\ items_created' = items_created + 1
                  /\ ep_items' = ep_items + 1
             ELSE UNCHANGED <<table, next_key, items_created, ep_items>>
          /\ IF d
             THEN /\ pc' = "sample"
                  /\ step' = step
             ELSE /\ pc' = "step"
                  /\ step' = step + 1
    /\ UNCHANGED <<kind, n_steps, min_size, max_size, episode, iteration,
                   items_sampled, in_flight, batch, n_updates, last_stale,
                   beta, beta_used, td_args>>

Collect ==
    \E a \in Actions, r \in Rewards, d \in BOOLEAN :
        /\ (step + 1 >= MaxEpisodeLen) => d
        /\ EnvStep(a, r, d)

\* ----------------------------------------------------------- the dataset
\* sampler=reverb.selectors.Uniform() draws any resident item,
\* Prioritized(priority_exponent=0.8) any item of positive weight.
Sampler(tbl) ==
    IF kind = "uniform"
    THEN 1..Len(tbl)
    ELSE {i \in 1..Len(tbl) : tbl[i].priority > 0}

\* What one draw hands to the dataset: the item's data and its info (key and
\* priority at the draw); seen_updates is the number of
\* update_priorities calls applied when the draw was made.
Draw(tbl, i) ==
    [key |-> tbl[i].key, priority |-> tbl[i].priority,
     steps |-> tbl[i].steps, seen_updates |-> n_updates]

\* A worker whose draw takes the item out of the table, as a queue would.
FetchAndRemove ==
    /\ pc = "sample" \/ items_sampled > 0
    /\ pc # "done"
    /\ CanSample
    /\ Len(in_flight) < max_in_flight
    /\ \E i \in Sampler(table) :
          /\ in_flight' = Append(in_flight, Draw(table, i))
          /\ table' = RemoveAt(table, i)
    /\ UNCHANGED <<kind, n_steps, min_size, max_size, next_key, writer, pc,
                   step, episode, iteration, items_created, items_sampled,
                   ep_items, batch, n_updates, last_stale,
                   beta, beta_used, td_args>>

\* The dataset's worker: once the consumer has asked for a batch it keeps up
\* to max_in_flight draws ahead of it, each one gated by the rate limiter.
Fetch ==
    /\ pc = "sample" \/ items_sampled > 0
    /\ pc # "done"
    /\ CanSample
    /\ Len(in_flight) < max_in_flight
    /\ \E i \in Sampler(table) : in_flight' = Append(in_flight, Draw(table, i))
    /\ UNCHANGED <<kind, n_steps, min_size, max_size, table, next_key, writer, pc,
                   step, episode, iteration, items_created, items_sampled,
                   ep_items, batch, n_updates, last_stale,
                   beta, beta_used, td_args>>

\* The dataset emits every draw as its timesteps, one after the other, each
\* with the draw's info.
RECURSIVE Timesteps(_)
Timesteps(samples) ==
    IF samples = <<>>
    THEN <<>>
    ELSE LET s == Head(samples) IN
         [j \in 1..Len(s.steps) |->
            [key |-> s.key, priority |-> s.priority,
             seen_updates |-> s.seen_updates, data |-> s.steps[j]]]
         \o Timesteps(Tail(samples))

\* dataset.batch(n_steps)
DatasetBatchShort == n_steps - 1
dataset_batch_n_steps == n_steps

\* The stream of timesteps cut into groups of dataset_batch_n_steps; the info
\* of a group is read at its first timestep.
BatchNSteps(stream) ==
    LET n == dataset_batch_n_steps IN
    IF n <= 0
    THEN <<>>
    ELSE [g \in 1..(Len(stream) \div n) |->
            [key |-> stream[(g - 1) * n + 1].key,
             priority |-> stream[(g - 1) * n + 1].priority,
             steps |-> [j \in 1..n |-> stream[(g - 1) * n + j].data],
             seen_updates |-> stream[(g - 1) * n + 1].seen_updates]]

\* sample_batch(): the dataset's next batch of sample_batch_size groups. Every
\* draw has n_steps timesteps, so the batch uses up sample_batch_size draws.
SampleBatch ==
    /\ pc = "sample"
    /\ Len(BatchNSteps(Timesteps(in_flight))) >= sample_batch_size
    /\ batch' = SubSeq(BatchNSteps(Timesteps(in_flight)), 1, sample_batch_size)
    /\ in_flight' = SubSeq(in_flight, sample_batch_size + 1, Len(in_flight))
    /\ items_sampled' = items_sampled + sample_batch_size
    /\ pc' = "train"
    /\ UNCHANGED <<kind, n_steps, min_size, max_size, table, next_key, writer,
                   step, episode, iteration, items_created, ep_items, n_updates,
                   last_stale,
                   beta, beta_used, td_args>>

\* --------------------------------------------------------- the training step
\* tf.pow(clipped_errors, 0.6) in thousandths, on the values the clipping leaves
Pow06(x) ==
    CASE x = 1000 -> 1000
      [] x = 510 -> 668
      [] x = 10 -> 63
      [] x = 0 -> 0

\* absolute_errors + 0.01, clipped at 1., to the power 0.6
NewPriorityNoOffset(abs_error) == Pow06(Min(abs_error, ErrorClip))
NewPriority(abs_error) == Pow06(Min(abs_error + ErrorOffset, ErrorClip))

SetPriority(tbl, k, p) ==
    [i \in 1..Len(tbl) |->
        IF tbl[i].key = k THEN [tbl[i] EXCEPT !.priority = p] ELSE tbl[i]]

\* A table that registers an entry for a key it does not hold.
RECURSIVE UpdatePrioritiesUpsert(_, _, _)
UpdatePrioritiesUpsert(tbl, keys, priorities) ==
    IF keys = <<>> THEN tbl
    ELSE UpdatePrioritiesUpsert(
            IF Head(keys) \in Keys(tbl)
            THEN SetPriority(tbl, Head(keys), Head(priorities))
            ELSE Append(tbl, [key |-> Head(keys), priority |-> Head(priorities),
                              steps |-> <<>>]),
            Tail(keys), Tail(priorities))

\* update_priorities(keys, priorities): the pairs are applied in order, a
\* key the table does not hold is skipped.
RECURSIVE UpdatePriorities(_, _, _)
UpdatePriorities(tbl, keys, priorities) ==
    IF keys = <<>> THEN tbl
    ELSE UpdatePriorities(SetPriority(tbl, Head(keys), Head(priorities)),
                          Tail(keys), Tail(priorities))

BatchKeys(b) == [j \in 1..Len(b) |-> b[j].key]

\* _training_step of the prioritized agent, then the rest of the loop body
\* of train(): new priorities from the batch's errors, written back under the
\* batch's keys. The uniform table's agent writes nothing back.
TrainingStep(abs_errors) ==
    /\ pc = "train"
    /\ LET keys == BatchKeys(batch)
           new_priorities == [j \in 1..Len(batch) |-> NewPriority(abs_errors[j])]
       IN IF kind = "priority"
          THEN /\ table' = UpdatePriorities(table, keys, new_priorities)
               /\ n_updates' = n_updates + 1
               /\ last_stale' = {keys[j] : j \in 1..Len(keys)} \ Keys(table)
               /\ beta_used' = Min(BetaCap, beta + BetaIncrement)
          ELSE UNCHANGED <<table, n_updates, last_stale, beta_used>>
    /\ iteration' = iteration + 1
    /\ pc' = IF iteration + 1 < MaxIterations THEN "collect" ELSE "done"
    /\ UNCHANGED <<kind, n_steps, min_size, max_size, next_key, writer, step,
                   episode, items_created, items_sampled, ep_items, in_flight,
                   batch, beta, td_args>>

Train == \E abs_errors \in [1..sample_batch_size -> AbsErrors] : TrainingStep(abs_errors)

Next == ResetEpisode \/ Collect \/ Fetch \/ SampleBatch \/ Train

Spec == Init /\ [][Next]_vars

\* The agent's thread and the dataset's worker both keep running.
LiveSpec == Spec /\ WF_vars(Next)

\* ------------------------------------------------- _prepare_td_arguments
TdRewards == {0, 1, 3}
TdActions == {0, 1}

RECURSIVE Pow(_, _)
Pow(b, e) == IF e = 0 THEN 1 ELSE b * Pow(b, e - 1)

\* matmul of a row with a column
RECURSIVE MatMul(_, _)
MatMul(row, col) ==
    IF row = <<>> THEN 0
    ELSE Head(row) * Head(col) + MatMul(Tail(row), Tail(col))

\* tf.range(n_steps - 1)
ExponentsFromOne == [t \in 1..(n_steps - 1) |-> t]
Exponents == [t \in 1..(n_steps - 1) |-> t - 1]

\* tf.pow(gammas, exponents); every entry, and so total_rewards and
\* last_discounted_gamma, is counted in units of 1 / GammaDen^(n_steps - 1).
DiscountedGammas ==
    [t \in 1..(n_steps - 1) |->
        Pow(GammaNum, Exponents[t]) * Pow(GammaDen, (n_steps - 1) - Exponents[t])]

\* _prepare_td_arguments for one window of the batch; an observation is named
\* by the episode and index of its step.
PrepareTdArguments(steps) ==
    LET rewards == [j \in 1..Len(steps) |-> steps[j].reward] IN
    [total_rewards |-> MatMul(Tail(rewards), DiscountedGammas),
     first_observations |-> <<steps[1].ep, steps[1].idx>>,
     last_observations |-> <<steps[Len(steps)].ep, steps[Len(steps)].idx>>,
     last_dones |-> steps[Len(steps)].done,
     last_discounted_gamma |-> Pow(GammaNum, n_steps - 1),
     second_actions |-> steps[2].action]

\* Any window of n_steps steps, as one sampled item of a batch.
TdWindows(n) ==
    {[j \in 1..n |-> [ep |-> 1, idx |-> j - 1, action |-> f[j][1],
                       reward |-> f[j][2], done |-> f[j][3]]] :
        f \in [1..n -> TdActions \X TdRewards \X BOOLEAN]}

TdInit ==
    /\ kind = "uniform"
    /\ n_steps \in 2..MaxNSteps
    /\ min_size = 1
    /\ max_size = 1
    /\ table = <<>>
    /\ next_key = 1
    /\ writer = <<>>
    /\ pc = "td"
    /\ step = 0
    /\ episode = 0
    /\ iteration = 0
    /\ items_created = 0
    /\ items_sampled = 0
    /\ ep_items = 0
    /\ in_flight = <<>>
    /\ \E w \in TdWindows(n_steps) :
          batch = <<[key |-> 1, priority |-> DefaultPriority, steps |-> w,
                     seen_updates |-> 0]>>
    /\ n_updates = 0
    /\ last_stale = {}
    /\ beta = 0
    /\ beta_used = 0
    /\ td_args = <<>>

PrepareTd ==
    /\ pc = "td"
    /\ td_args' = [j \in 1..Len(batch) |-> PrepareTdArguments(batch[j].steps)]
    /\ pc' = "td_done"
    /\ UNCHANGED <<kind, n_steps, min_size, max_size, table, next_key, writer,
                   step, episode, iteration, items_created, items_sampled,
                   ep_items, in_flight, batch, n_updates, last_stale, beta,
                   beta_used>>

TdNext == PrepareTd

TdSpec == TdInit /\ [][TdNext]_vars

\* ------------------------------------------------------------------ claims

\* C1: after every insert the table holds at most max_size items.
C1_SizeAtMostMaxSize == Len(table) <= max_size

\* A full table that has already evicted.
C1_FullTableAfterEviction ==
    n_steps >= 2 /\ Len(table) = max_size /\ items_created > max_size

\* C2: an insert that evicts evicts the resident item inserted first, whatever
\* the priorities and however often items were drawn, and the inserted item
\* stays; with max_size = 3 the inserts 1, 2, 3, 4 leave exactly {2, 3, 4}.
C2_FifoEviction ==
    /\ []((max_size = 3 /\ items_created = 4) => Keys(table) = {2, 3, 4})
    /\ [][/\ \A k \in Keys(table) \ Keys(table') :
                /\ k = table[1].key
                /\ \A k2 \in Keys(table) : k <= k2
          /\ next_key' # next_key => next_key \in Keys(table')]_vars

\* Four inserts into a table of three, with a priority rewritten and a draw made.
C2_FourInsertsIntoThree ==
    /\ n_steps >= 2
    /\ max_size = 3
    /\ items_created = 4
    /\ n_updates > 0
    /\ \E i \in 1..Len(table) : table[i].priority # DefaultPriority

\* C3: no draw is made and no batch is returned while the table holds fewer
\* than min_size items: the request stays blocked.
C3_NoSampleBelowMinSize ==
    [][/\ in_flight' # in_flight => Len(table) >= min_size
       /\ batch' # batch => Len(table) >= min_size
       /\ (pc = "sample" /\ pc' # "sample") => Len(table) >= min_size]_vars

\* A sample request waiting on a table that holds too few items.
C3_BlockedRequest ==
    /\ n_steps >= 2
    /\ min_size <= max_size
    /\ pc = "sample"
    /\ 0 < Len(table)
    /\ Len(table) < min_size
    /\ in_flight = <<>>
    /\ batch = <<>>

BatchKeySet == {batch[j].key : j \in 1..Len(batch)}

\* C4: an update_priorities call that names an evicted key changes nothing
\* for it: the table holds the same keys in the same order with the same
\* data, items the call does not name keep their priority, and the resident
\* items it names get one of the new priorities.
C4_StaleKeyUpdateIsNoOp ==
    [][(pc = "train" /\ pc' # "train") =>
          /\ Len(table') = Len(table)
          /\ \A i \in 1..Len(table) :
                /\ table'[i].key = table[i].key
                /\ table'[i].steps = table[i].steps
                /\ (table[i].key \notin BatchKeySet \/ kind = "uniform")
                      => table'[i].priority = table[i].priority
                /\ (table[i].key \in BatchKeySet /\ kind = "priority")
                      => table'[i].priority \in {NewPriority(e) : e \in AbsErrors}]_vars

\* An update that named an evicted key and a resident one.
C4_StaleAndResidentKeyUpdated ==
    /\ n_steps >= 2
    /\ last_stale # {}
    /\ BatchKeySet \cap Keys(table) # {}
    /\ pc # "train"

Max(a, b) == IF a >= b THEN a ELSE b

\* Steps the environment made in the episode just collected.
EpisodeLength == step + 1

\* C5 as stated: an episode of length L inserts L - N + 2 items.
C5_ItemsPerEpisode ==
    (pc \in {"sample", "train"} /\ n_steps >= 2)
        => ep_items = EpisodeLength - n_steps + 2

\* C5 as amended: an episode of length L inserts L - N + 2 items when
\* N >= 2 and L >= N - 2, none when it is shorter, and L items when N = 1.
C5_ItemsPerEpisodeAmended ==
    pc \in {"sample", "train"}
        => ep_items = Max(0, EpisodeLength - Max(n_steps, 2) + 2)

\* An episode of two steps collected into windows of three.
C5_TwoStepsWindowOfThree ==
    /\ pc = "sample"
    /\ n_steps = 3
    /\ EpisodeLength = 2
    /\ ep_items = 1

IsSentinel(s) == s.idx = 0 /\ s.action = -1 /\ s.reward = 0 /\ s.done = FALSE

\* C6: every item holds n_steps consecutive steps of one episode, and the
\* first step of every episode is the sentinel.
C6_WindowWithinOneEpisode ==
    /\ \A i \in 1..Len(table) :
          LET w == table[i].steps
          IN /\ Len(w) = n_steps
             /\ \A j \in 1..Len(w) :
                   /\ w[j].ep = w[1].ep
                   /\ w[j].idx = w[1].idx + j - 1
                   /\ w[j].idx = 0 => IsSentinel(w[j])
    /\ (pc = "step" /\ step = 0) => (Len(writer) = 1 /\ IsSentinel(writer[1]))

\* Items of two episodes side by side, one of them starting at its sentinel.
C6_ItemsOfTwoEpisodes ==
    /\ n_steps >= 2
    /\ \E i, j \in 1..Len(table) :
          /\ table[i].steps[1].ep # table[j].steps[1].ep
          /\ table[j].steps[1].idx = 0

\* C7: with n_steps < 2 the agent is never built: no step is appended and no
\* item is created (read on a buffer whose sizes are in order).
C7_ShortWindowRejected ==
    (n_steps < 2 /\ min_size <= max_size)
        => (writer = <<>> /\ items_created = 0)

\* C8: with min_size > max_size the buffer is never built: no table ever
\* holds an item (read with a window of at least two steps).
C8_MinAboveMaxRejected ==
    (min_size > max_size /\ n_steps >= 2) => table = <<>>

\* C9: every sample request of the training loop eventually returns a batch
\* (read with a window of at least two steps and min_size <= max_size).
C9_SampleEventuallyReturns ==
    (pc = "sample" /\ n_steps >= 2 /\ min_size <= max_size) ~> (pc = "train")

\* C10: every item of a returned batch was drawn after all the priority
\* updates the consumer had issued (read with a window of at least two steps
\* and min_size <= max_size).
C10_BatchDrawnAfterUpdates ==
    (pc = "train" /\ n_steps >= 2 /\ min_size <= max_size)
        => \A j \in 1..Len(batch) : batch[j].seen_updates = n_updates

C13_TableChangesOnlyOnCreateItem ==
    /\ [](\A i \in 1..Len(table) : Len(table[i].steps) = n_steps)
    /\ [][/\ Keys(table') # Keys(table)
               => (pc = "step" /\ items_created' = items_created + 1)
          /\ (writer' # writer /\ items_created' = items_created)
               => table' = table]_vars

\* An episode in progress whose buffered steps have made no item yet, beside
\* items of an earlier episode.
C13_StepsBufferedBesideItems ==
    /\ n_steps = 3
    /\ pc = "step"
    /\ Len(writer) = 2
    /\ ep_items = 0
    /\ table # <<>>

\* C15: every resident item has a priority above zero.
C15_PrioritiesPositive ==
    \A i \in 1..Len(table) : table[i].priority > 0

\* An item whose priority a training step has lowered to the floor.
C15_PriorityAtFloor ==
    /\ n_steps >= 2
    /\ \E i \in 1..Len(table) : table[i].priority = NewPriority(0)

\* C16: a draw and the return of a batch leave the table as it is, so an item
\* can be drawn again.
C16_SampleLeavesTable ==
    [][(in_flight' # in_flight \/ batch' # batch) => table' = table]_vars

\* The same item drawn twice and still resident with the content drawn.
C16_ItemDrawnTwice ==
    /\ n_steps >= 2
    /\ \E j \in 1..Len(in_flight), k \in 1..Len(in_flight), i \in 1..Len(table) :
          /\ j < k
          /\ in_flight[j].key = table[i].key
          /\ in_flight[k].key = table[i].key
          /\ in_flight[k].steps = table[i].steps

\* C17: with min_size 1, one item inserted into the empty table and a batch of
\* one sampled at once, the batch holds that item's steps, all n_steps of
\* them in the order they were appended.
C17_RoundTrip ==
    (min_size = 1 /\ items_created = 1 /\ iteration = 0 /\ pc = "train")
        => /\ Len(batch) = 1
           /\ Len(batch[1].steps) = n_steps
           /\ batch[1].steps = writer

\* The first batch of an agent whose first episode made one item of three steps.
C17_OneItemSampled ==
    /\ min_size = 1
    /\ n_steps = 3
    /\ items_created = 1
    /\ iteration = 0
    /\ pc = "train"
    /\ Len(table) = 1
    /\ batch[1].key = table[1].key

\* The n-step return of the claim: the sum over t = 1..n-1 of
\* gamma^(t-1) * reward_t, in units of 1 / GammaDen^(n-1).
RECURSIVE NStepReturn(_, _, _)
NStepReturn(w, t, n) ==
    IF t > n - 1 THEN 0
    ELSE w[t + 1].reward * Pow(GammaNum, t - 1) * Pow(GammaDen, n - t)
         + NStepReturn(w, t + 1, n)

\* C18: the n-step assembly of a window of N steps returns the rewards of
\* steps 1..N-1 discounted by gamma^(t-1) and summed (step 0's reward is left
\* out), the observation of step 0, the observation and done flag of step
\* N-1, the discount gamma^(N-1) and the action of step 1; for N = 3 the
\* return is r1 + gamma * r2, for N = 2 it is r1 with discount gamma.
C18_NStepAssembly ==
    pc = "td_done" =>
        LET w == batch[1].steps
            a == td_args[1]
        IN /\ a.total_rewards = NStepReturn(w, 1, n_steps)
           /\ a.first_observations = <<w[1].ep, 0>>
           /\ a.last_observations = <<w[n_steps].ep, n_steps - 1>>
           /\ a.last_dones = w[n_steps].done
           /\ a.last_discounted_gamma = Pow(GammaNum, n_steps - 1)
           /\ a.second_actions = w[2].action
           /\ n_steps = 3 =>
                a.total_rewards
                  = w[2].reward * GammaDen * GammaDen + GammaNum * w[3].reward * GammaDen
           /\ n_steps = 2 =>
                /\ a.total_rewards = w[2].reward * GammaDen
                /\ a.last_discounted_gamma = GammaNum

\* A window of three steps with a reward at step 0 and different rewards at
\* steps 1 and 2, assembled.
C18_WindowOfThreeAssembled ==
    /\ pc = "td_done"
    /\ n_steps = 3
    /\ batch[1].steps[1].reward = 3
    /\ batch[1].steps[2].reward = 1
    /\ batch[1].steps[3].reward = 3
    /\ td_args[1].total_rewards = 1 * GammaDen * GammaDen + 3 * GammaNum * GammaDen

\* C19: the beta of the k-th training step is min(1.0, 0.4 + k * 0.0001).
C19_BetaAnnealed ==
    (n_steps >= 2 /\ min_size <= max_size /\ kind = "priority" /\ iteration >= 1)
        => beta_used = Min(BetaCap, BetaStart + iteration * BetaIncrement)

\* What one append is followed by when create_item is due from the n-th
\* appended step of the episode on: the sentinel is the first appended step,
\* the step of loop index step the (step + 2)-th.
CreateItemAfterAppend ==
    LET appended == IF pc = "collect" THEN 1 ELSE step + 2 IN
    /\ appended < n_steps => items_created' = items_created
    /\ appended >= n_steps =>
          /\ items_created' = items_created + 1
          /\ Len(writer') = n_steps
          /\ table'[Len(table')].steps = writer'

\* C20: within an episode create_item is not called before n_steps steps,
\* the sentinel included, have been appended, and from then on it is called
\* exactly once after every appended step, each time on the n_steps steps
\* appended last.
C20_CreateItemEveryStep ==
    [][writer' # writer => CreateItemAfterAppend]_vars

\* The steps of a window keep the sentinel to position 0 and a done step to
\* the last position n_steps - 1 (sequences count from 1).
SentinelFirstDoneLast(steps) ==
    \A j \in 1..Len(steps) :
        /\ steps[j].action = -1 => j = 1
        /\ steps[j].done => j = n_steps

\* C21: for n_steps >= 2, in every item the collector created, resident or
\* drawn, the sentinel step stands at position 0 only and a done step at the
\* last position only; so the action at position 1 is one the policy chose
\* and no window runs past the end of an episode.
C21_SentinelFirstDoneLast ==
    n_steps >= 2 =>
        /\ \A i \in 1..Len(table) :
              /\ SentinelFirstDoneLast(table[i].steps)
              /\ table[i].steps[2].action \in Actions
        /\ \A i \in 1..Len(in_flight) : SentinelFirstDoneLast(in_flight[i].steps)
        /\ \A i \in 1..Len(batch) :
              /\ SentinelFirstDoneLast(batch[i].steps)
              /\ batch[i].steps[2].action \in Actions

\* Both items of an episode of two steps with windows of two: the first
\* starts with the sentinel, the second ends with the done step, and an episode
\* after it has begun.
C21_FirstAndLastWindow ==
    /\ n_steps = 2
    /\ episode = 2
    /\ \E i \in 1..Len(table), k \in 1..Len(table) :
          /\ table[i].steps[1].action = -1
          /\ table[i].steps[2].done = FALSE
          /\ table[k].steps[1].action # -1
          /\ table[k].steps[2].done
====
